---- MODULE Spec2Model ----
(***************************************************************************)
(* A model of parse_csv.py: the CSV loader parse_hrf_csv, the reducer and  *)
(* renderer disp_avg_HRF, the module-level driver loop with its example    *)
(* call and exit(), and the dictionary-based loader load_nirs_hrf_data.    *)
(*                                                                         *)
(* File names, column names and paths are strings; a DataFrame is a record *)
(* of its column names and its rows; floating-point values are exact       *)
(* rationals [n, d] with NaN written 0/0.  Console output of the driver    *)
(* and the styling of the figure are not modelled.                         *)
(***************************************************************************)
EXTENDS Integers, Sequences, FiniteSets, TLC

VARIABLES
    fs,        \* the directory: file name -> content
    pc,        \* the line the interpreter is at
    ret,       \* where disp_avg_HRF returns to
    i,         \* index of the driver loop into zip(files, names)
    frame,     \* arguments of the running disp_avg_HRF call
    df,        \* parse_hrf_csv: the DataFrame read
    ts,        \* the 'ts_ch' matrix
    std,       \* the 'std_ch' matrix
    ts_mean,   \* disp_avg_HRF: mean over channels of ts
    std_avg,   \* disp_avg_HRF: mean over channels of std
    t,         \* disp_avg_HRF: the time axis
    exc,       \* the exception raised, "none" if none
    reads,     \* file names pd.read_csv was called on
    images,    \* names of the image files on disk
    log,       \* history of calls, saves, shows and dismissals
    ci,        \* load_nirs_hrf_data: index into conditions
    si,        \* load_nirs_hrf_data: index into species
    hrf_data,  \* load_nirs_hrf_data: the nested dictionary
    stdout     \* load_nirs_hrf_data: the messages printed per file

locals == <<df, ts, std, ts_mean, std_avg, t>>
loader == <<ci, si, hrf_data, stdout>>
vars == <<fs, pc, ret, i, frame, df, ts, std, ts_mean, std_avg, t, exc,
          reads, images, log, ci, si, hrf_data, stdout>>

-----------------------------------------------------------------------------
(* Bounds of the tables drawn as inputs. *)
MaxRows == 3
MaxCells == 8

(* Cell values and column names the input tables are drawn from. *)
Vals == {0, 1}
ColNames == <<"time", "ts_ch1", "ts_ch2", "std_ch1", "std_ch2">>

-----------------------------------------------------------------------------
(* Strings *)

\* Python's `sub in s`.
Contains(sub, s) ==
    \E k \in 1..(Len(s) - Len(sub) + 1) : SubSeq(s, k, k + Len(sub) - 1) = sub

RECURSIVE str_replace(_, _, _)
\* Python's s.replace(old, new): every non-overlapping occurrence, left to right.
str_replace(s, old, new) ==
    IF Len(s) < Len(old) THEN s
    ELSE IF SubSeq(s, 1, Len(old)) = old
         THEN new \o str_replace(SubSeq(s, Len(old) + 1, Len(s)), old, new)
         ELSE SubSeq(s, 1, 1) \o str_replace(SubSeq(s, 2, Len(s)), old, new)

\* os.path.join(base_path, filename) for a base path ending in '/'.
os_path_join(base, name) == base \o name

\* The directory entry a relative path names: a leading './' is the directory itself.
Resolve(path) ==
    IF Len(path) >= 2 /\ SubSeq(path, 1, 2) = "./"
    THEN SubSeq(path, 3, Len(path)) ELSE path

-----------------------------------------------------------------------------
(* Exact arithmetic standing for float64 *)

RECURSIVE GCD(_, _)
GCD(a, b) == IF b = 0 THEN a ELSE GCD(b, a % b)

Abs(a) == IF a < 0 THEN -a ELSE a

NaN == [n |-> 0, d |-> 0]

\* a / b as a reduced fraction; 0 / 0 is NaN.
Frac(a, b) ==
    IF b = 0 THEN NaN
    ELSE LET g == GCD(Abs(a), Abs(b))
             s == IF b < 0 THEN -1 ELSE 1
         IN  [n |-> s * (a \div g), d |-> s * (b \div g)]

IsNaN(x) == x.d = 0

RatMul(x, y) == IF IsNaN(x) \/ IsNaN(y) THEN NaN ELSE Frac(x.n * y.n, x.d * y.d)
RatAdd(x, y) ==
    IF IsNaN(x) \/ IsNaN(y) THEN NaN ELSE Frac(x.n * y.d + y.n * x.d, x.d * y.d)

RECURSIVE SumSeq(_)
SumSeq(s) == IF s = <<>> THEN 0 ELSE Head(s) + SumSeq(Tail(s))

-----------------------------------------------------------------------------
(* Directory contents and DataFrames *)

Missing == [kind |-> "missing", cols |-> <<>>, rows |-> <<>>]
Malformed == [kind |-> "malformed", cols |-> <<>>, rows |-> <<>>]
Table(cols, rows) == [kind |-> "table", cols |-> cols, rows |-> rows]
NoDF == [kind |-> "unset", cols |-> <<>>, rows |-> <<>>]

RECURSIVE IdxSeq(_)
\* The members of a set of indexes in increasing order.
IdxSeq(S) ==
    IF S = {} THEN <<>>
    ELSE LET m == CHOOSE x \in S : \A y \in S : x <= y
         IN  <<m>> \o IdxSeq(S \ {m})

\* Every table of at most MaxRows rows and MaxCells cells over ColNames and Vals.
Tables ==
    UNION { UNION { { Table([j \in 1..Cardinality(S) |-> ColNames[IdxSeq(S)[j]]], rows) :
                        rows \in [1..R -> [1..Cardinality(S) -> Vals]] } :
                    S \in { X \in SUBSET (1..Len(ColNames)) : R * Cardinality(X) <= MaxCells } } :
            R \in 0..MaxRows }

\* The table of the end-to-end scenario: ts_ch1=[1,3], ts_ch2=[1,5], std_ch1=[0,0], std_ch2=[0,2].
ScenarioTable ==
    Table(<<"ts_ch1", "ts_ch2", "std_ch1", "std_ch2">>, <<<<1, 1, 0, 0>>, <<3, 5, 0, 2>>>>)

\* A table with spread columns and no mean column.
NoTsTable == Table(<<"time", "std_ch1">>, <<<<0, 1>>, <<1, 1>>>>)

os_path_exists(path) == fs[Resolve(path)].kind # "missing"

\* pd.read_csv(path): the DataFrame, or the exception it raises.
pd_read_csv(path) ==
    LET c == fs[Resolve(path)]
    IN  CASE c.kind = "missing" -> [exc |-> "FileNotFoundError", df |-> NoDF]
          [] c.kind = "malformed" -> [exc |-> "ParserError", df |-> NoDF]
          [] OTHER -> [exc |-> "none", df |-> c]

\* df.filter(like=like): the columns whose name contains `like`, in order.
df_filter_all(d, like) == d
df_filter(d, like) ==
    LET idx == IdxSeq({ j \in 1..Len(d.cols) : Contains(like, d.cols[j]) })
    IN  Table([j \in 1..Len(idx) |-> d.cols[idx[j]]],
              [r \in 1..Len(d.rows) |-> [j \in 1..Len(idx) |-> d.rows[r][idx[j]]]])

\* df.values: the matrix of the DataFrame, one sequence per row.
df_values(d) == d.rows

\* np.mean(m, axis=0): one value per column.
np_mean_axis0(m) ==
    IF Len(m) = 0 THEN <<>>
    ELSE [j \in 1..Len(m[1]) |-> Frac(SumSeq([r \in 1..Len(m) |-> m[r][j]]), Len(m))]
\* np.mean(m, axis=1): one value per row, the sum of the row over its length.
np_mean_axis1(m) == [r \in 1..Len(m) |-> Frac(SumSeq(m[r]), Len(m[r]))]

\* np.linspace(start, stop, num) without its endpoint.
np_linspace_open(start, stop, num) ==
    [k \in 1..num |-> RatAdd(RatMul(Frac(k - 1, 1), Frac(stop - start, num)), Frac(start, 1))]
\* np.linspace(start, stop, num), endpoint included.
np_linspace(start, stop, num) ==
    LET div == num - 1
        delta == stop - start
        y == IF div > 0
             THEN [k \in 1..num |-> RatMul(Frac(k - 1, 1), Frac(delta, div))]
             ELSE [k \in 1..num |-> RatMul(Frac(k - 1, 1), Frac(delta, 1))]
        z == [k \in 1..num |-> RatAdd(y[k], Frac(start, 1))]
    IN  IF num > 1 THEN [z EXCEPT ![num] = Frac(stop, 1)] ELSE z

-----------------------------------------------------------------------------
(* Module-level constants of the script *)

files == <<"before_hrf_hbo.csv", "before_hrf_hbr.csv", "before_hrf_hbt.csv",
           "after_hrf_hbo.csv", "after_hrf_hbr.csv", "after_hrf_hbt.csv">>
names == <<"Before NO - HbO", "Before NO - HbR", "Before NO - HbT",
           "After NO - HbO", "After NO - HbR", "After NO - HbT">>
conditions == <<"before", "after">>
species == <<"hbo", "hbr", "hbt">>

\* Python's None, as the value of filepath_fig.
None == "None"

Min(a, b) == IF a < b THEN a ELSE b

Files == { files[k] : k \in 1..Len(files) }

Event(ev, n, f) == [ev |-> ev, n |-> n, f |-> f]

-----------------------------------------------------------------------------
(* disp_avg_HRF(filepath, title, filepath_fig, show) and parse_hrf_csv *)

\* An exception nothing catches: it ends the script.
Raise(e) == pc' = "raised" /\ exc' = e

Call(filepath, title, filepath_fig, show, n, back) ==
    /\ frame' = [filepath |-> filepath, title |-> title,
                 filepath_fig |-> filepath_fig, show |-> show, n |-> n]
    /\ ret' = back
    /\ log' = Append(log, Event("call", n, filepath))
    /\ df' = NoDF /\ ts' = <<>> /\ std' = <<>>
    /\ ts_mean' = <<>> /\ std_avg' = <<>> /\ t' = <<>>
    /\ pc' = "L21"

\* pd.read_csv without a preceding existence check.
Exists_unchecked ==
    /\ pc = "L21"
    /\ pc' = "L25"
    /\ UNCHANGED <<fs, ret, i, frame, locals, exc, reads, images, log, loader>>

\* parse_hrf_csv, lines 21-22: the explicit existence check.
Exists ==
    /\ pc = "L21"
    /\ IF ~os_path_exists(frame.filepath)
       THEN Raise("FileNotFoundError")
       ELSE pc' = "L25" /\ exc' = exc
    /\ UNCHANGED <<fs, ret, i, frame, locals, reads, images, log, loader>>

\* parse_hrf_csv, line 25: df = pd.read_csv(file_path).
ReadCsv ==
    /\ pc = "L25"
    /\ reads' = reads \cup {frame.filepath}
    /\ LET r == pd_read_csv(frame.filepath)
       IN  IF r.exc # "none"
           THEN Raise(r.exc) /\ df' = df
           ELSE pc' = "L29" /\ exc' = exc /\ df' = r.df
    /\ UNCHANGED <<fs, ret, i, frame, ts, std, ts_mean, std_avg, t, images, log, loader>>

\* parse_hrf_csv, lines 29-38: split the columns and return the two matrices.
Filter ==
    /\ pc = "L29"
    /\ ts' = df_values(df_filter(df, "ts_ch"))
    /\ std' = df_values(df_filter(df, "std_ch"))
    /\ pc' = "L44"
    /\ UNCHANGED <<fs, ret, i, frame, df, ts_mean, std_avg, t, exc, reads, images, log, loader>>

\* disp_avg_HRF, lines 44-51: the two means over channels and the time axis.
Reduce ==
    /\ pc = "L44"
    /\ ts_mean' = np_mean_axis1(ts)
    /\ std_avg' = np_mean_axis1(std)
    /\ t' = np_linspace(0, 20, Len(ts))
    /\ pc' = "L57"
    /\ UNCHANGED <<fs, ret, i, frame, df, ts, std, exc, reads, images, log, loader>>

\* disp_avg_HRF, lines 57-91: draw the band, the line, the labels.
Plot ==
    /\ pc = "L57"
    /\ log' = Append(log, Event("plot", frame.n, frame.title))
    /\ pc' = "L92"
    /\ UNCHANGED <<fs, ret, i, frame, locals, exc, reads, images, loader>>

\* Line 92 with the savefig call left out.
Save_omitted ==
    /\ pc = "L92"
    /\ pc' = "L93"
    /\ UNCHANGED <<fs, ret, i, frame, locals, exc, reads, images, log, loader>>

\* disp_avg_HRF, line 92: plt.savefig(filepath_fig, dpi=300) if filepath_fig else None.
Save ==
    /\ pc = "L92"
    /\ IF frame.filepath_fig # None /\ frame.filepath_fig # ""
       THEN /\ images' = images \cup {frame.filepath_fig}
            /\ log' = Append(log, Event("save", frame.n, frame.filepath_fig))
       ELSE UNCHANGED <<images, log>>
    /\ pc' = "L93"
    /\ UNCHANGED <<fs, ret, i, frame, locals, exc, reads, loader>>

\* disp_avg_HRF, lines 93-94: plt.show() opens the window and blocks.
Show ==
    /\ pc = "L93"
    /\ IF frame.show
       THEN /\ log' = Append(log, Event("show", frame.n, frame.filepath))
            /\ pc' = "showing"
       ELSE /\ log' = log
            /\ pc' = ret
    /\ UNCHANGED <<fs, ret, i, frame, locals, exc, reads, images, loader>>

\* The user closes the window: plt.show() returns, and with it disp_avg_HRF.
Dismiss ==
    /\ pc = "showing"
    /\ log' = Append(log, Event("dismiss", frame.n, frame.filepath))
    /\ pc' = ret
    /\ UNCHANGED <<fs, ret, i, frame, locals, exc, reads, images, loader>>

-----------------------------------------------------------------------------
(* The script: lines 97-111 *)

figure_filename_same(file) == file
\* Line 103: file.replace('.csv', '.png').
figure_filename(file) == str_replace(file, ".csv", ".png")

\* Lines 102-105: the next pair of zip(files, names), or the end of the loop.
LoopStep ==
    /\ pc = "L102"
    /\ IF i <= Min(Len(files), Len(names))
       THEN /\ Call(files[i], names[i], figure_filename(files[i]), TRUE, i, "L102")
            /\ i' = i + 1
       ELSE /\ pc' = "L109"
            /\ UNCHANGED <<frame, ret, log, i, locals>>
    /\ UNCHANGED <<fs, exc, reads, images, loader>>

\* Line 109: disp_avg_HRF('before_hrf_hbo.csv', title='Before NO - HbO HRF').
ExampleCall ==
    /\ pc = "L109"
    /\ Call("before_hrf_hbo.csv", "Before NO - HbO HRF", None, TRUE, Len(files) + 1, "L111")
    /\ UNCHANGED <<fs, i, exc, reads, images, loader>>

\* The script without its exit(): control falls through to line 113.
ExitScript_missing ==
    /\ pc = "L111"
    /\ pc' = "L113"
    /\ UNCHANGED <<fs, ret, i, frame, locals, exc, reads, images, log, loader>>

\* Line 111: exit().
ExitScript ==
    /\ pc = "L111"
    /\ pc' = "exited"
    /\ UNCHANGED <<fs, ret, i, frame, locals, exc, reads, images, log, loader>>

NoLocals ==
    /\ df = NoDF /\ ts = <<>> /\ std = <<>>
    /\ ts_mean = <<>> /\ std_avg = <<>> /\ t = <<>>

NoLoader == ci = 0 /\ si = 0 /\ hrf_data = <<>> /\ stdout = <<>>

NoFrame == [filepath |-> "", title |-> "", filepath_fig |-> None, show |-> FALSE, n |-> 0]

\* The contents a file of the directory may have when the script starts.
Contents == {Missing, Malformed, ScenarioTable, NoTsTable}

Init ==
    /\ fs \in [Files -> Contents]
    /\ pc = "L102" /\ ret = "" /\ i = 1 /\ frame = NoFrame
    /\ NoLocals /\ NoLoader
    /\ exc = "none" /\ reads = {} /\ images = {} /\ log = <<>>

DispStep ==
    \/ Exists \/ ReadCsv \/ Filter \/ Reduce \/ Plot \/ Save \/ Show \/ Dismiss

Next == LoopStep \/ ExampleCall \/ ExitScript \/ DispStep

Spec == Init /\ [][Next]_vars

-----------------------------------------------------------------------------
(* One call of disp_avg_HRF on an arbitrary bounded table *)

InitCall ==
    /\ \E c \in Tables \cup {ScenarioTable, Missing, Malformed} :
           fs = [f \in Files |-> IF f = files[1] THEN c ELSE Missing]
    /\ \E fig \in {None, figure_filename(files[1])} : \E show \in BOOLEAN :
           frame = [filepath |-> files[1], title |-> names[1],
                    filepath_fig |-> fig, show |-> show, n |-> 1]
    /\ pc = "L21" /\ ret = "caller" /\ i = 1
    /\ NoLocals /\ NoLoader
    /\ exc = "none" /\ reads = {} /\ images = {}
    /\ log = <<Event("call", 1, files[1])>>

SpecCall == InitCall /\ [][DispStep]_vars

-----------------------------------------------------------------------------
(* load_nirs_hrf_data(base_path='./'): lines 113-158 *)

\* d[k] = v on a dictionary held as a function.
DictSet(d, k, v) == [x \in DOMAIN d \cup {k} |-> IF x = k THEN v ELSE d[x]]

\* Line 142: f'{condition}_hrf_{sp}.csv'.
filename(condition, sp) == condition \o "_hrf_" \o sp \o ".csv"

\* Lines 128-135: the empty dictionary.
LoadBegin ==
    /\ pc = "L128"
    /\ hrf_data' = <<>>
    /\ ci' = 1
    /\ pc' = "L137"
    /\ UNCHANGED <<fs, ret, i, frame, locals, exc, reads, images, log, si, stdout>>

\* Lines 137-138: the next condition gets an empty dictionary of its own.
NextCondition ==
    /\ pc = "L137"
    /\ IF ci <= Len(conditions)
       THEN /\ hrf_data' = DictSet(hrf_data, conditions[ci], <<>>)
            /\ si' = 1
            /\ pc' = "L140"
       ELSE /\ pc' = "L158"
            /\ UNCHANGED <<hrf_data, si>>
    /\ UNCHANGED <<fs, ret, i, frame, locals, exc, reads, images, log, ci, stdout>>

\* Lines 140-156 with the read outside any try block.
LoadOne_uncaught(base_path) ==
    /\ pc = "L140"
    /\ IF si <= Len(species)
       THEN LET full_path == os_path_join(base_path, filename(conditions[ci], species[si]))
                r == pd_read_csv(full_path)
            IN  /\ reads' = reads \cup {Resolve(full_path)}
                /\ IF r.exc = "none"
                   THEN /\ hrf_data' = DictSet(hrf_data, conditions[ci],
                                           DictSet(hrf_data[conditions[ci]], species[si], r.df))
                        /\ si' = si + 1
                        /\ UNCHANGED <<pc, exc>>
                   ELSE Raise(r.exc) /\ UNCHANGED <<hrf_data, si>>
                /\ UNCHANGED <<ci, stdout>>
       ELSE /\ ci' = ci + 1
            /\ pc' = "L137"
            /\ UNCHANGED <<hrf_data, si, stdout, reads, exc>>
    /\ UNCHANGED <<fs, ret, i, frame, locals, images, log>>

\* Lines 140-156: read one file; a missing file is a warning, any other failure an
\* error message, and the loop goes on.
LoadOne(base_path) ==
    /\ pc = "L140"
    /\ IF si <= Len(species)
       THEN LET name == filename(conditions[ci], species[si])
                full_path == os_path_join(base_path, name)
                r == pd_read_csv(full_path)
            IN  /\ reads' = reads \cup {Resolve(full_path)}
                /\ CASE r.exc = "none" ->
                          /\ hrf_data' = DictSet(hrf_data, conditions[ci],
                                             DictSet(hrf_data[conditions[ci]], species[si], r.df))
                          /\ stdout' = Append(stdout, <<"Successfully loaded", name>>)
                     [] r.exc = "FileNotFoundError" ->
                          /\ hrf_data' = hrf_data
                          /\ stdout' = Append(stdout, <<"Warning: File not found", full_path>>)
                     [] OTHER ->
                          /\ hrf_data' = hrf_data
                          /\ stdout' = Append(stdout, <<"Error loading", name>>)
                /\ si' = si + 1
                /\ UNCHANGED <<pc, ci>>
       ELSE /\ ci' = ci + 1
            /\ pc' = "L137"
            /\ UNCHANGED <<hrf_data, si, stdout, reads>>
    /\ UNCHANGED <<fs, ret, i, frame, locals, exc, images, log>>

\* Line 158: return hrf_data.
LoaderReturn ==
    /\ pc = "L158"
    /\ pc' = "L165"
    /\ UNCHANGED <<fs, ret, i, frame, locals, exc, reads, images, log, loader>>

InitLoad ==
    /\ fs \in [Files -> {Missing, Malformed, ScenarioTable}]
    /\ pc = "L128" /\ ret = "" /\ i = 1 /\ frame = NoFrame
    /\ NoLocals /\ NoLoader
    /\ exc = "none" /\ reads = {} /\ images = {} /\ log = <<>>

NextLoad == LoadBegin \/ NextCondition \/ LoadOne("./") \/ LoaderReturn

SpecLoad == InitLoad /\ [][NextLoad]_vars

-----------------------------------------------------------------------------
(* Properties *)

\* Positions of disp_avg_HRF after the reduction of lines 44-51, its return included.
AfterReduce == {"L57", "L92", "L93", "showing", "caller"}

Count(ev, f) == Cardinality({ p \in 1..Len(log) : log[p].ev = ev /\ log[p].f = f })

Matched(d, like) == { j \in 1..Len(d.cols) : Contains(like, d.cols[j]) }

RECURSIVE SumCols(_, _)
\* The sum of a row over a set of column indexes.
SumCols(row, J) ==
    IF J = {} THEN 0
    ELSE LET j == CHOOSE x \in J : TRUE IN row[j] + SumCols(row, J \ {j})

\* x is the quotient S / K (NaN when K = 0).
IsQuotient(x, S, K) == IF K = 0 THEN x.d = 0 ELSE x.d > 0 /\ x.n * K = S * x.d

ExpectedPng == <<"before_hrf_hbo.png", "before_hrf_hbr.png", "before_hrf_hbt.png",
                 "after_hrf_hbo.png", "after_hrf_hbr.png", "after_hrf_hbt.png">>

(* C1: for a path that does not exist, parse_hrf_csv raises FileNotFoundError at its
   existence check: pd.read_csv is never called on that path, the call never gets past
   line 21, and the exception is not a parse error. *)
C1_MissingFileSignalled ==
    \A f \in Files :
        fs[f].kind = "missing" =>
            /\ f \notin reads
            /\ frame.filepath = f =>
                   /\ pc \in {"L21", "raised"}
                   /\ pc = "raised" => exc = "FileNotFoundError"

C1_Witness ==
    /\ pc = "raised" /\ exc = "FileNotFoundError"
    /\ fs[frame.filepath].kind = "missing"
    /\ frame.n = 3 /\ reads = {files[1], files[2]}

(* C2: a failure while processing one file aborts only that file's run: when the
   script has ended, every file of the list has had its call of disp_avg_HRF. *)
C2_OtherFilesStillProcessed ==
    pc \in {"raised", "exited"} =>
        \A k \in 1..Len(files) :
            \E p \in 1..Len(log) : log[p].ev = "call" /\ log[p].f = files[k]

(* C3: a table with no 'ts_ch' column or no 'std_ch' column is rejected with an error:
   the call never gets to reduce and render a zero-width matrix. *)
C3_ZeroWidthRejected ==
    (df.kind = "table" /\ (Matched(df, "ts_ch") = {} \/ Matched(df, "std_ch") = {}))
        => pc \notin AfterReduce

C5_MeanOfOwnGroup ==
    pc \in AfterReduce =>
        /\ df = ScenarioTable =>
               /\ ts_mean = <<Frac(1, 1), Frac(4, 1)>>
               /\ std_avg = <<Frac(0, 1), Frac(1, 1)>>
               /\ t = <<Frac(0, 1), Frac(20, 1)>>
        /\ Len(ts_mean) = Len(df.rows) /\ Len(std_avg) = Len(df.rows)
        /\ \A r \in 1..Len(df.rows) :
               /\ IsQuotient(ts_mean[r], SumCols(df.rows[r], Matched(df, "ts_ch")),
                             Cardinality(Matched(df, "ts_ch")))
               /\ IsQuotient(std_avg[r], SumCols(df.rows[r], Matched(df, "std_ch")),
                             Cardinality(Matched(df, "std_ch")))

C5_Witness ==
    /\ pc = "caller" /\ df = ScenarioTable
    /\ ts_mean = <<[n |-> 1, d |-> 1], [n |-> 4, d |-> 1]>>
    /\ std_avg = <<[n |-> 0, d |-> 1], [n |-> 1, d |-> 1]>>

WellFormed(d) ==
    /\ d.kind = "table"
    /\ Cardinality(Matched(d, "ts_ch")) = Cardinality(Matched(d, "std_ch"))
    /\ Matched(d, "ts_ch") # {}

(* C6: for a table of R rows with equal nonzero numbers of 'ts_ch' and 'std_ch'
   columns, the mean trace and the spread trace both have length R. *)
C6_OneValuePerRow ==
    (pc \in AfterReduce /\ WellFormed(df)) =>
        /\ Len(ts_mean) = Len(df.rows)
        /\ Len(std_avg) = Len(df.rows)

C6_Witness ==
    /\ pc \in AfterReduce /\ WellFormed(df)
    /\ Len(df.rows) = 1 /\ Cardinality(Matched(df, "ts_ch")) = 2
    /\ Len(ts_mean) = 1

(* C7, as stated: for a table of N >= 1 rows the time axis has N values, evenly
   spaced, the first 0 and the last 20. *)
C7_AxisFromZeroToTwenty ==
    (pc \in AfterReduce /\ Len(df.rows) >= 1) =>
        /\ Len(t) = Len(df.rows)
        /\ t[1] = Frac(0, 1)
        /\ t[Len(t)] = Frac(20, 1)
        /\ \A k \in 1..(Len(t) - 2) :
               RatAdd(t[k + 1], RatMul(Frac(-1, 1), t[k])) =
                   RatAdd(t[k + 2], RatMul(Frac(-1, 1), t[k + 1]))

(* C7, amended: for a table of N rows the time axis has N values and, when N >= 1,
   starts at 0; when N >= 2 its values are evenly spaced, the k-th being
   20 (k - 1) / (N - 1), so that the last is 20; when N = 1 its one value is 0. *)
C7_AxisEvenlySpaced ==
    pc \in AfterReduce =>
        /\ Len(t) = Len(df.rows)
        /\ Len(t) >= 1 => t[1] = Frac(0, 1)
        /\ Len(t) >= 2 =>
               /\ t[Len(t)] = Frac(20, 1)
               /\ \A k \in 1..Len(t) : IsQuotient(t[k], 20 * (k - 1), Len(t) - 1)

C7_Witness ==
    /\ pc \in AfterReduce /\ Len(df.rows) = 3
    /\ t = <<Frac(0, 1), Frac(10, 1), Frac(20, 1)>>

(* C8: load_nirs_hrf_data never raises; it reads all six files in order, prints one
   message per file, a warning exactly for the missing ones, and returns a dictionary
   with both condition keys holding the species whose file was read as a table. *)
C8_PartialDictionary ==
    /\ pc # "raised" /\ exc = "none"
    /\ pc = "L165" =>
           /\ DOMAIN hrf_data = {"before", "after"}
           /\ reads = Files
           /\ Len(stdout) = Len(files)
           /\ \A c \in 1..Len(conditions) : \A sp \in 1..Len(species) :
                  LET f == files[(c - 1) * Len(species) + sp]
                  IN  /\ species[sp] \in DOMAIN hrf_data[conditions[c]]
                          <=> fs[f].kind = "table"
                      /\ fs[f].kind = "table" => hrf_data[conditions[c]][species[sp]] = fs[f]
                      /\ stdout[(c - 1) * Len(species) + sp] =
                             <<"Warning: File not found", "./" \o f>>
                          <=> fs[f].kind = "missing"
           /\ \A c \in DOMAIN hrf_data :
                  DOMAIN hrf_data[c] \subseteq { species[sp] : sp \in 1..Len(species) }

C8_Witness ==
    /\ pc = "L165"
    /\ fs[files[1]].kind = "missing" /\ fs[files[6]].kind = "missing"
    /\ fs[files[2]].kind = "malformed"
    /\ DOMAIN hrf_data["before"] = {"hbt"}
    /\ DOMAIN hrf_data["after"] = {"hbo", "hbr"}

(* C9: in the driver loop the image of a file is written before its window is shown,
   the call for the next file begins only after the window of the current one was
   dismissed, and the calls follow the file list without overlap. *)
C9_SaveShowDismissInOrder ==
    /\ \A p \in 1..Len(log) :
           (log[p].ev = "show" /\ log[p].n <= Len(files)) =>
               \E q \in 1..(p - 1) :
                   log[q] = Event("save", log[p].n, ExpectedPng[log[p].n])
    /\ \A p \in 1..Len(log) :
           (log[p].ev = "call" /\ log[p].n > 1) =>
               /\ log[p - 1].ev = "dismiss"
               /\ log[p - 1].n = log[p].n - 1
    /\ \A p \in 1..Len(log) :
           /\ \A q \in 1..(p - 1) : log[q].n <= log[p].n
           /\ (log[p].ev = "call" /\ log[p].n <= Len(files)) => log[p].f = files[log[p].n]
    /\ pc = "showing" =>
           /\ log[Len(log)] = Event("show", frame.n, frame.filepath)
           /\ ~ENABLED LoopStep

C9_Witness ==
    /\ pc = "showing" /\ frame.n = 2
    /\ \E p \in 1..Len(log) : log[p] = Event("dismiss", 1, files[1])

(* C10: the script ends at exit() at the latest: the example call writes no image,
   nothing runs after exit(), and load_nirs_hrf_data and the code after it are never
   reached. *)
C10_NothingAfterExit ==
    /\ pc \notin {"L113", "L128", "L137", "L140", "L158", "L165"}
    /\ NoLoader
    /\ \A p \in 1..Len(log) : log[p].n = Len(files) + 1 => log[p].ev # "save"
    /\ pc = "exited" => ~ENABLED Next

C10_Witness ==
    /\ pc = "exited"
    /\ \E p \in 1..Len(log) : log[p] = Event("dismiss", Len(files) + 1, "before_hrf_hbo.csv")

====
